---- MODULE Spec2Model ----
(***************************************************************************)
(* Model of scripts/generate_image_paths.py: the path collector            *)
(* (get_image_paths), the two groupers, the report builder                 *)
(* (create_json_output) and the emitter (main).                            *)
(*                                                                         *)
(* A string is a sequence of one-character strings, so that the code's     *)
(* string operations (startswith, suffix, lower, replace, sorted) are      *)
(* computed character by character.  A filesystem path is a sequence of    *)
(* segments, each segment a string.                                        *)
(***************************************************************************)
EXTENDS Integers, Sequences, FiniteSets, TLC

\* ------------------------------------------------------------------ bounds
MaxFiles == 2     \* files in the scanned tree
MaxRuns == 2      \* successive invocations of main on the same tree
MaxArgLen == 2    \* length of a path list handed directly to a grouper/builder

\* -------------------------------------------------------------- characters
LowerCase == <<"a","b","c","d","e","f","g","h","i","j","k","l","m",
               "n","o","p","q","r","s","t","u","v","w","x","y","z">>
UpperCase == <<"A","B","C","D","E","F","G","H","I","J","K","L","M",
               "N","O","P","Q","R","S","T","U","V","W","X","Y","Z">>

Range(s) == {s[i] : i \in DOMAIN s}

IndexIn(c, tab) == CHOOSE i \in DOMAIN tab : tab[i] = c

\* code point of a character (ASCII)
Ord(c) ==
    IF c \in Range(LowerCase) THEN 96 + IndexIn(c, LowerCase)
    ELSE IF c \in Range(UpperCase) THEN 64 + IndexIn(c, UpperCase)
    ELSE IF c = "." THEN 46
    ELSE IF c = "/" THEN 47
    ELSE IF c = "\\" THEN 92
    ELSE IF c = "_" THEN 95
    ELSE 0

\* str.lower() on one character
LowerChar(c) ==
    IF c \in Range(UpperCase) THEN LowerCase[IndexIn(c, UpperCase)] ELSE c

\* str.lower()
Lower(s) == [i \in DOMAIN s |-> LowerChar(s[i])]

\* str.startswith('.')
StartsWithDot(s) == Len(s) > 0 /\ s[1] = "."

\* str.replace("\\", "/")
ReplaceBackslash(s) == [i \in DOMAIN s |-> IF s[i] = "\\" THEN "/" ELSE s[i]]

\* s < t in Python's string order (lexicographic by code point)
RECURSIVE StrLess(_, _)
StrLess(s, t) ==
    IF t = <<>> THEN FALSE
    ELSE IF s = <<>> THEN TRUE
    ELSE IF Ord(s[1]) # Ord(t[1]) THEN Ord(s[1]) < Ord(t[1])
    ELSE StrLess(Tail(s), Tail(t))

\* sep.join(segs)
RECURSIVE Join(_, _)
Join(segs, sep) ==
    IF segs = <<>> THEN <<>>
    ELSE IF Len(segs) = 1 THEN segs[1]
    ELSE segs[1] \o <<sep>> \o Join(Tail(segs), sep)

\* s.split("/"): the pieces between slashes, empty pieces included
RECURSIVE SplitSlash(_, _, _)
SplitSlash(s, i, cur) ==
    IF i > Len(s) THEN <<cur>>
    ELSE IF s[i] = "/" THEN <<cur>> \o SplitSlash(s, i + 1, <<>>)
    ELSE SplitSlash(s, i + 1, Append(cur, s[i]))

\* Path(s).parts for a relative POSIX path: empty and "." pieces are dropped
PathParts(s) ==
    SelectSeq(SplitSlash(s, 1, <<>>), LAMBDA seg : seg # <<>> /\ seg # <<".">>)

\* index of the last "." in name, 0 when there is none (str.rfind + 1)
RECURSIVE RFindDot(_, _)
RFindDot(name, i) ==
    IF i = 0 THEN 0
    ELSE IF name[i] = "." THEN i
    ELSE RFindDot(name, i - 1)

\* PurePath.suffix of a final component: the text from the last dot, unless
\* that dot is the first or the last character of the name
Suffix(name) ==
    LET i == RFindDot(name, Len(name))
    IN  IF 1 < i /\ i < Len(name) THEN SubSeq(name, i, Len(name)) ELSE <<>>

\* PurePath.name of parsed parts
NameOf(parts) == IF parts = <<>> THEN <<>> ELSE parts[Len(parts)]

\* str(Path(s).parent)
ParentStr(s) ==
    LET parts == PathParts(s)
    IN  IF Len(parts) <= 1 THEN <<".">>
        ELSE Join(SubSeq(parts, 1, Len(parts) - 1), "/")

\* sorted(list of strings): insertion into an ascending list, stable
RECURSIVE InsertSorted(_, _)
InsertSorted(x, s) ==
    IF s = <<>> THEN <<x>>
    ELSE IF StrLess(x, s[1]) THEN <<x>> \o s
    ELSE <<s[1]>> \o InsertSorted(x, Tail(s))

RECURSIVE SortedFrom(_, _)
SortedFrom(s, i) ==
    IF i = 0 THEN <<>> ELSE InsertSorted(s[i], SortedFrom(s, i - 1))

Sorted(s) == SortedFrom(s, Len(s))

\* ------------------------------------------------------ program constants
\* image_extensions
image_extensions ==
    { <<".","j","p","g">>,
      <<".","j","p","e","g">>,
      <<".","p","n","g">>,
      <<".","g","i","f">>,
      <<".","b","m","p">>,
      <<".","t","i","f","f">>,
      <<".","t","i","f">>,
      <<".","w","e","b","p">>,
      <<".","s","v","g">>,
      <<".","i","c","o">>,
      <<".","j","f","i","f">>,
      <<".","p","j","p","e","g">>,
      <<".","p","j","p">>,
      <<".","a","v","i","f">>,
      <<".","a","p","n","g">>,
      <<".","h","e","i","c">>,
      <<".","h","e","i","f">> }

\* ignore_dirs
ignore_dirs ==
    { <<".","g","i","t">>,
      <<".","g","i","t","h","u","b">>,
      <<".","v","s","c","o","d","e">>,
      <<"_","_","p","y","c","a","c","h","e","_","_">>,
      <<"n","o","d","e","_","m","o","d","u","l","e","s">>,
      <<"v","e","n","v">>,
      <<".","v","e","n","v">>,
      <<"e","n","v">>,
      <<"d","i","s","t">>,
      <<"b","u","i","l","d">>,
      <<".","n","e","x","t">>,
      <<".","n","u","x","t">>,
      <<"o","u","t">> }

\* sentinel keys of the groupers
RootFolder == <<"r","o","o","t">>
NoExtension == <<"n","o","_","e","x","t","e","n","s","i","o","n">>

\* output_file = "image_paths.json", as the one-segment path it is written to
output_file == <<<<"i","m","a","g","e","_","p","a","t","h","s",".","j","s","o","n">>>>

\* ------------------------------------------------------------- filesystem
\* Candidate files of the scanned tree, each the sequence of directory-entry
\* names from the scan root down to the file.  On a POSIX host a backslash is
\* an ordinary character of a name.
F_a_png == <<<<"a",".","p","n","g">>>>
F_a_b_JPG == <<<<"a">>, <<"b",".","J","P","G">>>>
F_git_c_png == <<<<".","g","i","t">>, <<"c",".","p","n","g">>>>
F_node_modules_d_gif == <<<<"n","o","d","e","_","m","o","d","u","l","e","s">>, <<"d",".","g","i","f">>>>
F_root_r_png == <<<<"r","o","o","t">>, <<"r",".","p","n","g">>>>
F_a_bs_b_JPG == <<<<"a","\\","b",".","J","P","G">>>>
F_env_bs_e_png == <<<<"e","n","v","\\","e",".","p","n","g">>>>
F_a_bs_dot_png == <<<<"a","\\",".","p","n","g">>>>
F_hidden_png == <<<<".","h","i","d","d","e","n",".","p","n","g">>>>
F_notes_txt == <<<<"n","o","t","e","s",".","t","x","t">>>>
F_pics_png_x_gif == <<<<"p","i","c","s",".","p","n","g">>, <<"x",".","g","i","f">>>>
F_cache_k_png == <<<<".","c","a","c","h","e">>, <<"k",".","p","n","g">>>>

FileUniverse ==
    { F_a_png,
      F_a_b_JPG,
      F_git_c_png,
      F_node_modules_d_gif,
      F_root_r_png,
      F_a_bs_b_JPG,
      F_env_bs_e_png,
      F_a_bs_dot_png,
      F_hidden_png,
      F_notes_txt,
      F_pics_png_x_gif,
      F_cache_k_png }

\* Where the scan root lies: the parts of Path(".").resolve()
RootLocations ==
    { <<<<"/">>, <<"w">>>>,
      <<<<"/">>, <<"o","u","t">>, <<"w">>>> }

\* Every entry rglob("*") yields for a set of files: the files and all the
\* directories above them, below the root
Entries(files) ==
    UNION { { SubSeq(f, 1, n) : n \in 1..Len(f) } : f \in files }

\* -------------------------------------------------------- path collector
\* One iteration of the loop of get_image_paths on the entry e (its segments
\* below the root): the list after it.  file_path.parts are those of the
\* resolved, absolute path, so they start with the parts of the root.
VisitEntry(paths, root, e, files) ==
    LET parts == root \o e
        name == NameOf(parts)
    IN  IF \E i \in DOMAIN parts : parts[i] \in ignore_dirs THEN paths
        ELSE IF StartsWithDot(name) THEN paths
        ELSE IF e \in files /\ Lower(Suffix(name)) \in image_extensions
             THEN Append(paths, ReplaceBackslash(Join(e, "/")))
             ELSE paths

\* ---------------------------------------------------------------- grouper
\* grouped[key].append(path), the key created on first encounter
AddToGroup(grouped, key, path) ==
    IF key \in DOMAIN grouped
    THEN [grouped EXCEPT ![key] = Append(@, path)]
    ELSE grouped @@ (key :> <<path>>)

EmptyDict == [k \in {} |-> <<>>]

FolderKey(path) ==
    LET folder == ParentStr(path)
    IN  IF folder = <<".">> THEN RootFolder ELSE folder

ExtensionKey(path) ==
    LET ext == Lower(Suffix(NameOf(PathParts(path))))
    IN  IF ext = <<>> THEN NoExtension ELSE ext

RECURSIVE FolderLoop(_, _)
FolderLoop(paths, n) ==
    IF n = 0 THEN EmptyDict
    ELSE AddToGroup(FolderLoop(paths, n - 1), FolderKey(paths[n]), paths[n])

group_by_folder(paths) == FolderLoop(paths, Len(paths))

RECURSIVE ExtensionLoop(_, _)
ExtensionLoop(paths, n) ==
    IF n = 0 THEN EmptyDict
    ELSE AddToGroup(ExtensionLoop(paths, n - 1), ExtensionKey(paths[n]), paths[n])

group_by_extension(paths) == ExtensionLoop(paths, Len(paths))

\* --------------------------------------------------------- report builder
\* os.environ.get(name, default)
EnvGet(environ, name, default) ==
    IF name \in DOMAIN environ THEN environ[name] ELSE default

\* the statistics with len(grouped) taken instead of len(paths)
GroupStatsOfDict(grouped) ==
    [k \in DOMAIN grouped |-> Cardinality(DOMAIN grouped)]

\* {key: len(paths) for key, paths in grouped.items()}
GroupStats(grouped) == [k \in DOMAIN grouped |-> Len(grouped[k])]

Metadata(environ, now, total) ==
    [ generated_at |-> now,
      total_images |-> total,
      repository   |-> EnvGet(environ, "GITHUB_REPOSITORY", "local"),
      commit_sha   |-> EnvGet(environ, "GITHUB_SHA", ""),
      run_id       |-> EnvGet(environ, "GITHUB_RUN_ID", "") ]

create_json_output(image_paths_, environ, now) ==
    LET by_folder == group_by_folder(image_paths_)
        by_extension == group_by_extension(image_paths_)
    IN  [ metadata   |-> Metadata(environ, now, Len(image_paths_)),
          statistics |-> [ by_folder    |-> GroupStats(by_folder),
                           by_extension |-> GroupStats(by_extension) ],
          images     |-> [ all_paths    |-> image_paths_,
                           by_folder    |-> by_folder,
                           by_extension |-> by_extension ],
          summary    |-> "Found " \o ToString(Len(image_paths_))
                          \o " image files across "
                          \o ToString(Cardinality(DOMAIN by_folder))
                          \o " folders" ]

\* the empty document with the summary built from the template
EmptyOutputTemplated(environ, now) ==
    [ metadata   |-> Metadata(environ, now, 0),
      statistics |-> [ by_folder |-> EmptyDict, by_extension |-> EmptyDict ],
      images     |-> [ all_paths    |-> <<>>,
                       by_folder    |-> EmptyDict,
                       by_extension |-> EmptyDict ],
      summary    |-> "Found 0 image files across 0 folders" ]

\* the document main builds itself when the scan found nothing
EmptyOutput(environ, now) ==
    [ metadata   |-> Metadata(environ, now, 0),
      statistics |-> [ by_folder |-> EmptyDict, by_extension |-> EmptyDict ],
      images     |-> [ all_paths    |-> <<>>,
                       by_folder    |-> EmptyDict,
                       by_extension |-> EmptyDict ],
      summary    |-> "No image files found" ]

\* the two lines main appends to the file GITHUB_OUTPUT names
GithubOutputLines(doc) ==
    << "total_images=" \o ToString(doc.metadata.total_images),
       "output_file=image_paths.json" >>

\* ------------------------------------------------------------ environment
\* The process environment under GitHub Actions; a local run has none of
\* these variables.
ActionsEnv ==
    [ GITHUB_REPOSITORY |-> "owner/repo",
      GITHUB_SHA        |-> "0a1b2c3",
      GITHUB_RUN_ID     |-> "17",
      GITHUB_OUTPUT     |-> "/runner/output" ]

Environments ==
    { [k \in names |-> ActionsEnv[k]] : names \in {{}, DOMAIN ActionsEnv} }

\* Path lists handed directly to the groupers and the report builder
ArgPaths ==
    { <<"a",".","p","n","g">>,
      <<"a","/","b",".","J","P","G">>,
      <<"r","o","o","t","/","r",".","p","n","g">>,
      <<"R","E","A","D","M","E">>,
      <<"x","/","y","/","c",".","g","i","f">> }

ArgLists == UNION { [1..n -> ArgPaths] : n \in 0..MaxArgLen }

Trees == { files \in SUBSET FileUniverse : Cardinality(files) <= MaxFiles }

\* ------------------------------------------------------------------ state
VARIABLES
    root,         \* parts of the resolved scan root (the working directory)
    tree,         \* the files under the root
    environ,      \* os.environ
    pc,           \* position of main ("lib": the module is used as a library)
    run,          \* number of the current invocation of main
    pending,      \* entries rglob has not yielded yet
    paths,        \* get_image_paths' local list image_paths
    image_paths,  \* main's image_paths, the list get_image_paths returned
    output,       \* main's output: <<>> until built, then <<document>>
    outFile,      \* image_paths.json on disk
    ghOutput,     \* lines of the file GITHUB_OUTPUT names
    events,       \* side effects of the current invocation, in order
    exit_status,  \* <<>> while main runs, then <<its return value>>
    history,      \* the lists earlier invocations' scans returned
    arg,          \* library use: the path list passed
    ret           \* library use: <<>> or <<[fn, value]>>, the call's result

vars == << root, tree, environ, pc, run, pending, paths, image_paths, output,
           outFile, ghOutput, events, exit_status, history, arg, ret >>

fsVars == << root, tree, environ >>
libVars == << arg, ret >>

\* datetime.datetime.now(): a reading that differs between invocations
Now == run

AbsentFile == [state |-> "absent", content |-> <<>>]

InitMain ==
    /\ root \in RootLocations
    /\ tree \in Trees
    /\ environ \in Environments
    /\ pc = "start"
    /\ run = 1
    /\ pending = {}
    /\ paths = <<>>
    /\ image_paths = <<>>
    /\ output = <<>>
    /\ outFile = AbsentFile
    /\ ghOutput = <<>>
    /\ events = <<>>
    /\ exit_status = <<>>
    /\ history = <<>>
    /\ arg = <<>>
    /\ ret = <<>>

InitLib ==
    /\ root = <<<<"/">>, <<"w">>>>
    /\ tree = {}
    /\ environ \in Environments
    /\ pc = "lib"
    /\ run = 1
    /\ pending = {}
    /\ paths = <<>>
    /\ image_paths = <<>>
    /\ output = <<>>
    /\ outFile = AbsentFile
    /\ ghOutput = <<>>
    /\ events = <<>>
    /\ exit_status = <<>>
    /\ history = <<>>
    /\ arg \in ArgLists
    /\ ret = <<>>

Init == InitMain \/ InitLib

\* ------------------------------------------------------------------- main
\* print("... start ..."), then the call of get_image_paths("."): the root is
\* resolved and rglob starts
PrintStart ==
    /\ pc = "start"
    /\ events' = Append(events, "print_start")
    /\ pending' = Entries(tree)
    /\ paths' = <<>>
    /\ pc' = "scan"
    /\ UNCHANGED << fsVars, run, image_paths, output, outFile, ghOutput,
                    exit_status, history, libVars >>

\* one iteration of the for loop, on whichever entry the host yields next
ScanStep ==
    /\ pc = "scan"
    /\ \E e \in pending :
         /\ paths' = VisitEntry(paths, root, e, tree)
         /\ pending' = pending \ {e}
    /\ UNCHANGED << fsVars, pc, run, image_paths, output, outFile, ghOutput,
                    events, exit_status, history, libVars >>

\* return sorted(image_paths), once rglob is exhausted
ScanReturn ==
    /\ pc = "scan"
    /\ pending = {}
    /\ image_paths' = Sorted(paths)
    /\ events' = Append(events, "scan")
    /\ pc' = "branch"
    /\ UNCHANGED << fsVars, run, pending, paths, output, outFile, ghOutput,
                    exit_status, history, libVars >>

\* the walk raises (an unreadable directory, a vanished entry, ...)
ScanRaise ==
    /\ pc = "scan"
    /\ pc' = "except"
    /\ UNCHANGED << fsVars, run, pending, paths, image_paths, output, outFile,
                    ghOutput, events, exit_status, history, libVars >>

\* if not image_paths: the warning and the literal empty document
NoImages ==
    /\ pc = "branch"
    /\ image_paths = <<>>
    /\ events' = Append(events, "print_warning")
    /\ output' = <<EmptyOutput(environ, Now)>>
    /\ pc' = "write"
    /\ UNCHANGED << fsVars, run, pending, paths, image_paths, outFile,
                    ghOutput, exit_status, history, libVars >>

\* else: the count, the per-extension lines, and create_json_output
BuildOutput ==
    /\ pc = "branch"
    /\ image_paths # <<>>
    /\ events' = events \o <<"print_count", "print_extensions">>
    /\ output' = <<create_json_output(image_paths, environ, Now)>>
    /\ pc' = "write"
    /\ UNCHANGED << fsVars, run, pending, paths, image_paths, outFile,
                    ghOutput, exit_status, history, libVars >>

\* with open(output_file, "w") ...: json.dump(output, f, ...)
WriteOutput ==
    /\ pc = "write"
    /\ outFile' = [state |-> "written", content |-> output]
    /\ tree' = tree \cup {output_file}
    /\ events' = Append(events, "write")
    /\ pc' = "report"
    /\ UNCHANGED << root, environ, run, pending, paths, image_paths, output,
                    ghOutput, exit_status, history, libVars >>

\* a failed write that is swallowed, main going on to its success lines
WriteRaiseSwallowed ==
    /\ pc = "write"
    /\ \/ UNCHANGED << outFile, tree >>
       \/ /\ outFile' = [state |-> "partial", content |-> <<>>]
          /\ tree' = tree \cup {output_file}
    /\ pc' = "report"
    /\ UNCHANGED << root, environ, run, pending, paths, image_paths, output,
                    ghOutput, events, exit_status, history, libVars >>

\* the write raises: either open() fails and the file is untouched, or the
\* file was truncated and the dump stops part-way
WriteRaise ==
    /\ pc = "write"
    /\ \/ UNCHANGED << outFile, tree >>
       \/ /\ outFile' = [state |-> "partial", content |-> <<>>]
          /\ tree' = tree \cup {output_file}
    /\ pc' = "except"
    /\ UNCHANGED << root, environ, run, pending, paths, image_paths, output,
                    ghOutput, events, exit_status, history, libVars >>

\* the two success lines
PrintSuccess ==
    /\ pc = "report"
    /\ events' = Append(events, "print_success")
    /\ pc' = "github_output"
    /\ UNCHANGED << fsVars, run, pending, paths, image_paths, output, outFile,
                    ghOutput, exit_status, history, libVars >>

\* "GITHUB_OUTPUT" not in os.environ: return 0
ReturnLocal ==
    /\ pc = "github_output"
    /\ "GITHUB_OUTPUT" \notin DOMAIN environ
    /\ exit_status' = <<0>>
    /\ pc' = "done"
    /\ UNCHANGED << fsVars, run, pending, paths, image_paths, output, outFile,
                    ghOutput, events, history, libVars >>

\* the two lines are appended to the GITHUB_OUTPUT file: return 0
AppendGithubOutput ==
    /\ pc = "github_output"
    /\ "GITHUB_OUTPUT" \in DOMAIN environ
    /\ ghOutput' = ghOutput \o GithubOutputLines(output[1])
    /\ events' = Append(events, "append")
    /\ exit_status' = <<0>>
    /\ pc' = "done"
    /\ UNCHANGED << fsVars, run, pending, paths, image_paths, output, outFile,
                    history, libVars >>

\* opening the GITHUB_OUTPUT file for append raises
AppendRaise ==
    /\ pc = "github_output"
    /\ "GITHUB_OUTPUT" \in DOMAIN environ
    /\ pc' = "except"
    /\ UNCHANGED << fsVars, run, pending, paths, image_paths, output, outFile,
                    ghOutput, events, exit_status, history, libVars >>

\* the handler returning success after printing the error
ExceptReturnsZero ==
    /\ pc = "except"
    /\ events' = Append(events, "print_error")
    /\ exit_status' = <<0>>
    /\ pc' = "done"
    /\ UNCHANGED << fsVars, run, pending, paths, image_paths, output, outFile,
                    ghOutput, history, libVars >>

\* except Exception as e: print to stderr, return 1
Except ==
    /\ pc = "except"
    /\ events' = Append(events, "print_error")
    /\ exit_status' = <<1>>
    /\ pc' = "done"
    /\ UNCHANGED << fsVars, run, pending, paths, image_paths, output, outFile,
                    ghOutput, history, libVars >>

\* the script is invoked again in the same directory
Rerun ==
    /\ pc = "done"
    /\ run < MaxRuns
    /\ run' = run + 1
    /\ history' = IF "scan" \in Range(events)
                  THEN Append(history, image_paths) ELSE history
    /\ pc' = "start"
    /\ pending' = {}
    /\ paths' = <<>>
    /\ image_paths' = <<>>
    /\ output' = <<>>
    /\ events' = <<>>
    /\ exit_status' = <<>>
    /\ UNCHANGED << fsVars, outFile, ghOutput, libVars >>

\* ------------------------------------------------------------ library use
CallGroupByFolder ==
    /\ pc = "lib"
    /\ ret = <<>>
    /\ ret' = <<[fn |-> "group_by_folder", value |-> group_by_folder(arg)]>>
    /\ UNCHANGED << fsVars, pc, run, pending, paths, image_paths, output,
                    outFile, ghOutput, events, exit_status, history, arg >>

CallGroupByExtension ==
    /\ pc = "lib"
    /\ ret = <<>>
    /\ ret' = <<[fn |-> "group_by_extension",
                 value |-> group_by_extension(arg)]>>
    /\ UNCHANGED << fsVars, pc, run, pending, paths, image_paths, output,
                    outFile, ghOutput, events, exit_status, history, arg >>

CallCreateJsonOutput ==
    /\ pc = "lib"
    /\ ret = <<>>
    /\ ret' = <<[fn |-> "create_json_output",
                 value |-> create_json_output(arg, environ, Now)]>>
    /\ UNCHANGED << fsVars, pc, run, pending, paths, image_paths, output,
                    outFile, ghOutput, events, exit_status, history, arg >>

Next ==
    \/ PrintStart
    \/ ScanStep
    \/ ScanReturn
    \/ ScanRaise
    \/ NoImages
    \/ BuildOutput
    \/ WriteOutput
    \/ WriteRaise
    \/ PrintSuccess
    \/ ReturnLocal
    \/ AppendGithubOutput
    \/ AppendRaise
    \/ Except
    \/ Rerun
    \/ CallGroupByFolder
    \/ CallGroupByExtension
    \/ CallCreateJsonOutput

Spec == Init /\ [][Next]_vars

\* ------------------------------------------------------------- properties
\* get_image_paths has returned in the current invocation of main
ScanReturned == "scan" \in Range(events)

\* main's document exists and was built by create_json_output
BuiltByBuilder == output # <<>> /\ image_paths # <<>>

\* number of occurrences of x in the list s
Count(s, x) == Cardinality({i \in DOMAIN s : s[i] = x})

RECURSIVE SumOver(_, _)
SumOver(f, keys) ==
    IF keys = {} THEN 0
    ELSE LET k == CHOOSE x \in keys : TRUE
         IN  f[k] + SumOver(f, keys \ {k})

\* the segments of a returned path string, split at every forward slash
Segments(p) == SplitSlash(p, 1, <<>>)

\* grouped is a partition of the list s: every path of s is in the list of
\* exactly one key, exactly once, and the lists together hold the paths of s
IsPartition(grouped, s) ==
    /\ \A p \in Range(s) :
         /\ Cardinality({k \in DOMAIN grouped : p \in Range(grouped[k])}) = 1
         /\ \A k \in DOMAIN grouped : Count(grouped[k], p) <= 1
    /\ UNION {Range(grouped[k]) : k \in DOMAIN grouped} = Range(s)

\* C1: every returned path list is partitioned by both groupers (each path in
\* exactly one folder group and one extension group, exactly once; the groups
\* together are the list), and the per-group counts of the report add up to
\* metadata.total_images.
C1_GroupsPartition ==
    /\ ScanReturned =>
         /\ IsPartition(group_by_folder(image_paths), image_paths)
         /\ IsPartition(group_by_extension(image_paths), image_paths)
    /\ BuiltByBuilder =>
         LET doc == output[1]
         IN  /\ SumOver(doc.statistics.by_folder,
                        DOMAIN doc.statistics.by_folder)
                  = doc.metadata.total_images
             /\ SumOver(doc.statistics.by_extension,
                        DOMAIN doc.statistics.by_extension)
                  = doc.metadata.total_images

\* C2: no returned path has a segment in the ignore set, and the last
\* segment of no returned path begins with a dot.
C2_NoIgnoredOrHidden ==
    ScanReturned =>
        \A i \in DOMAIN image_paths :
            LET segs == Segments(image_paths[i])
            IN  /\ \A j \in DOMAIN segs : segs[j] \notin ignore_dirs
                /\ ~StartsWithDot(segs[Len(segs)])

\* the files of the tree the collector is to return, by the rule of C3: a
\* supported lowercased extension, a name not starting with a dot, and no
\* segment below the root in the ignore set
Wanted(files) ==
    { f \in files :
        /\ Lower(Suffix(NameOf(f))) \in image_extensions
        /\ ~StartsWithDot(NameOf(f))
        /\ \A j \in DOMAIN f : f[j] \notin ignore_dirs }

\* C3: wherever the scan root lies, get_image_paths returns exactly the files
\* under the root with a supported lowercased extension, a name not starting
\* with a dot and no path segment in the ignore set.
C3_ExactlyTheImages ==
    ScanReturned =>
        Range(image_paths) =
            { ReplaceBackslash(Join(f, "/")) : f \in Wanted(tree) }

\* C4: the returned list is strictly ascending (sorted, no duplicates), and a
\* later scan of the same tree, image_paths.json now in it, returns the same
\* list.
C4_SortedUniqueStable ==
    ScanReturned =>
        /\ \A i \in DOMAIN image_paths : \A j \in DOMAIN image_paths :
               i < j => StrLess(image_paths[i], image_paths[j])
        /\ \A n \in DOMAIN history : history[n] = image_paths

\* the Report Document of an empty path list, as C5 states it
IsEmptyReport(doc, summary) ==
    /\ doc.metadata.total_images = 0
    /\ doc.images.all_paths = <<>>
    /\ DOMAIN doc.statistics.by_folder = {}
    /\ DOMAIN doc.statistics.by_extension = {}
    /\ DOMAIN doc.images.by_folder = {}
    /\ DOMAIN doc.images.by_extension = {}
    /\ doc.summary = summary

BuilderReturnedForEmpty ==
    /\ arg = <<>>
    /\ ret # <<>>
    /\ ret[1].fn = "create_json_output"

MainBuiltForEmpty == ScanReturned /\ image_paths = <<>> /\ output # <<>>

\* C5 as stated: for an empty path list both create_json_output and main
\* produce the fully populated empty document with summary
\* "No image files found".
C5_Original ==
    /\ BuilderReturnedForEmpty =>
         IsEmptyReport(ret[1].value, "No image files found")
    /\ MainBuiltForEmpty =>
         IsEmptyReport(output[1], "No image files found")

\* C5 (amended): when main's scan finds nothing, the document main builds and
\* writes is the fully populated empty document with summary
\* "No image files found"; create_json_output itself, given an empty list,
\* returns the same empty document but with the templated summary
\* "Found 0 image files across 0 folders".
C5_EmptyReport ==
    /\ MainBuiltForEmpty =>
         /\ IsEmptyReport(output[1], "No image files found")
         /\ "write" \in Range(events) =>
              /\ outFile.state = "written"
              /\ IsEmptyReport(outFile.content[1], "No image files found")
    /\ BuilderReturnedForEmpty =>
         IsEmptyReport(ret[1].value, "Found 0 image files across 0 folders")

C5_Witness ==
    /\ pc = "done"
    /\ MainBuiltForEmpty
    /\ outFile.state = "written"
    /\ outFile.content[1].summary = "No image files found"

\* the distinct parent directories of the listed paths, each as the parsed
\* segments above the file (the root itself is the empty sequence)
ParentDirs(s) ==
    { SubSeq(PathParts(s[i]), 1, Len(PathParts(s[i])) - 1) : i \in DOMAIN s }

\* C6: for a non-empty list the summary is "Found N image files across M
\* folders" with N = metadata.total_images = the length of the list and M =
\* the number of keys of images.by_folder = the number of distinct parent
\* directories of the listed paths.
C6_Summary ==
    BuiltByBuilder =>
        LET doc == output[1]
            N == doc.metadata.total_images
            M == Cardinality(DOMAIN doc.images.by_folder)
        IN  /\ N = Len(image_paths)
            /\ M = Cardinality(ParentDirs(image_paths))
            /\ doc.summary = "Found " \o ToString(N)
                              \o " image files across " \o ToString(M)
                              \o " folders"

\* C7 as stated: once image_paths.json was written main returns 0, and main
\* returns 1 exactly when a step raised before or during that write.
C7_Original ==
    pc = "done" =>
        /\ "write" \in Range(events) => exit_status = <<0>>
        /\ exit_status = <<1>> <=> "write" \notin Range(events)

\* every step of the try block completed: the scan, the write and, when
\* GITHUB_OUTPUT is set, the append
AllStepsCompleted ==
    /\ "scan" \in Range(events)
    /\ "write" \in Range(events)
    /\ "GITHUB_OUTPUT" \in DOMAIN environ => "append" \in Range(events)

\* C7 (amended): main returns 0 exactly when every step of its try block
\* completed without raising (the scan, the write of image_paths.json and,
\* when GITHUB_OUTPUT is set, the append to it), zero images included; it
\* returns 1 exactly when one of these steps raised, which may be after
\* image_paths.json was written.
C7_ExitStatus ==
    pc = "done" =>
        /\ AllStepsCompleted => exit_status = <<0>>
        /\ ~AllStepsCompleted => exit_status = <<1>>

C7_Witness ==
    /\ pc = "done"
    /\ image_paths = <<>>
    /\ outFile.state = "written"
    /\ "write" \in Range(events)
    /\ exit_status = <<0>>

\* the statistics of a document are the sizes of its groups
StatsMatchGroups(doc) ==
    /\ DOMAIN doc.statistics.by_folder = DOMAIN doc.images.by_folder
    /\ DOMAIN doc.statistics.by_extension = DOMAIN doc.images.by_extension
    /\ \A k \in DOMAIN doc.images.by_folder :
         /\ doc.statistics.by_folder[k] = Len(doc.images.by_folder[k])
         /\ doc.statistics.by_folder[k] >= 1
    /\ \A k \in DOMAIN doc.images.by_extension :
         /\ doc.statistics.by_extension[k] = Len(doc.images.by_extension[k])
         /\ doc.statistics.by_extension[k] >= 1

\* C8: in every document create_json_output builds, statistics.by_folder and
\* statistics.by_extension have the keys of images.by_folder and
\* images.by_extension, and each value is the length of that group's list,
\* at least 1.
C8_StatsAreGroupSizes ==
    /\ BuiltByBuilder => StatsMatchGroups(output[1])
    /\ (ret # <<>> /\ ret[1].fn = "create_json_output") =>
         StatsMatchGroups(ret[1].value)

C8_Witness ==
    /\ BuiltByBuilder
    /\ \E k \in DOMAIN output[1].statistics.by_folder :
         output[1].statistics.by_folder[k] = 2

\* position of the event e in the current invocation, 0 when it has not
\* happened
Pos(e) ==
    IF e \in Range(events)
    THEN CHOOSE i \in DOMAIN events : events[i] = e
    ELSE 0

\* e happened only after d
After(e, d) == Pos(e) > 0 => (0 < Pos(d) /\ Pos(d) < Pos(e))

SideEffectOrder ==
    /\ After("scan", "print_start")
    /\ After("write", "scan")
    /\ After("print_success", "write")
    /\ After("append", "print_success")
    /\ "append" \in Range(events) =>
         /\ "GITHUB_OUTPUT" \in DOMAIN environ
         /\ outFile.state = "written"
    /\ (pc = "done" /\ ~("scan" \in Range(events) /\ "write" \in Range(events)))
         => /\ "append" \notin Range(events)
            /\ events[Len(events)] = "print_error"
            /\ exit_status = <<1>>

\* the GITHUB_OUTPUT file changes only by the append step of a run that has
\* written image_paths.json, and then by exactly the two lines
AppendStep ==
    ghOutput' # ghOutput =>
        /\ "GITHUB_OUTPUT" \in DOMAIN environ
        /\ "write" \in Range(events)
        /\ events[Len(events)] = "print_success"
        /\ outFile.state = "written"
        /\ ghOutput' = ghOutput \o
             << "total_images=" \o ToString(Len(image_paths)),
                "output_file=image_paths.json" >>
        /\ events' = Append(events, "append")

\* C9: in every run of main the side effects come in the order start line,
\* scan, write of the output file, success lines, append to GITHUB_OUTPUT;
\* the two lines are appended only if GITHUB_OUTPUT is set and only after
\* image_paths.json was written, so a run whose scan or write raises appends
\* nothing, prints the error and returns 1.
C9_SideEffectOrder == [](SideEffectOrder) /\ [][AppendStep]_vars

C9_Witness ==
    /\ pc = "done"
    /\ "append" \in Range(events)
    /\ Len(ghOutput) = 2

\* C10: every key of group_by_extension on a returned list is a supported
\* extension, the lowercased extension of each path in its list, and never
\* the sentinel "no_extension".
C10_ExtensionKeys ==
    ScanReturned =>
        LET grouped == group_by_extension(image_paths)
        IN  \A k \in DOMAIN grouped :
              /\ k \in image_extensions
              /\ k # NoExtension
              /\ \A i \in DOMAIN grouped[k] :
                   LET segs == Segments(grouped[k][i])
                   IN  Lower(Suffix(segs[Len(segs)])) = k

====
